---- MODULE Spec2Model ----
(***************************************************************************)
(* Model of the hs-web API gateway client (session store, request          *)
(* dispatcher, auth service table) and of the pages that drive it (shared  *)
(* login form, register form).                                             *)
(*                                                                         *)
(* Strings of the program are TLA+ strings; a JSON text kept in browser    *)
(* storage is a sequence of lexemes, so that JSON.stringify / JSON.parse   *)
(* are real conversions.  A JavaScript object is a function whose DOMAIN   *)
(* is the set of its own property names; an absent property is a name      *)
(* outside the DOMAIN.                                                     *)
(***************************************************************************)
EXTENDS Integers, Sequences, FiniteSets, Bags, TLC

VARIABLES
    hasWindow,      \* typeof window !== 'undefined' (browser vs. server rendering)
    localStorage,   \* browser storage: own keys -> stored string
    inflight,       \* bag of the requests handed to fetch and not yet settled
    page,           \* the page mounted in the tab
    form,           \* React state of the mounted page
    timers,         \* callbacks scheduled with setTimeout, not yet run
    location,       \* last value assigned to window.location.href
    env,            \* process.env.NEXT_PUBLIC_API_URL as it is now
    hostname,       \* window.location.hostname
    API_BASE_URL,   \* the module constant of the client, once the module is loaded
    ev              \* what the last step did (history variable)

vars == <<hasWindow, localStorage, inflight, page, form, timers, location,
          env, hostname, API_BASE_URL, ev>>

gatewayVars == <<env, hostname, API_BASE_URL>>

(***************************************************************************)
(* Bounds of the model.                                                    *)
(***************************************************************************)
MaxInflight == 2

(***************************************************************************)
(* Values.                                                                 *)
(***************************************************************************)
TOKEN_KEY == "hotstart_token"
USER_KEY == "hotstart_user"

Null == "<null>"                      \* null where a string is expected
NullObject == [isNull |-> TRUE]       \* null where an object is expected
EmptyObject == [k \in {} |-> ""]      \* {}

Has(o, k) == k \in DOMAIN o

(***************************************************************************)
(* Gateway URL.                                                            *)
(***************************************************************************)
GATEWAY_URL == "https://api.hotstart.dev"
DEV_GATEWAY_URL == "http://localhost:8787"

getGatewayUrl_hostFirst ==
    IF hasWindow /\ hostname # "localhost" THEN GATEWAY_URL
    ELSE IF env # Null /\ env # "" THEN env
    ELSE DEV_GATEWAY_URL

\* an unset variable is undefined and an empty one is "", both falsy
getGatewayUrl ==
    IF env # Null /\ env # "" THEN env
    ELSE IF hasWindow /\ hostname # "localhost" THEN GATEWAY_URL
    ELSE DEV_GATEWAY_URL

\* const url = `${API_BASE_URL}${endpoint}`
requestUrl(endpoint) == API_BASE_URL \o endpoint

\* the client module has been loaded in a deployment without an override
GatewayResolved ==
    /\ env = Null
    /\ hostname = IF hasWindow THEN "hotstart.dev" ELSE Null
    /\ API_BASE_URL = getGatewayUrl

Tokens == {"T1", "T2"}
AuthUser == {[id |-> "1", email |-> "user@example.com"],
             [id |-> "2", email |-> "other@example.com"]}
\* the user the backend issues each token for
Session == [t \in Tokens |->
              IF t = "T1" THEN [id |-> "1", email |-> "user@example.com"]
              ELSE [id |-> "2", email |-> "other@example.com"]]

(***************************************************************************)
(* JSON.stringify / JSON.parse on flat objects with string members.        *)
(* stringify walks the own properties in order and emits                   *)
(* { k1 : v1 , k2 : v2 } as lexemes; parse reads the members back.         *)
(***************************************************************************)
PropertyOrder == <<"id", "email">>

RECURSIVE Members(_, _)
Members(o, ks) ==
    IF ks = <<>> THEN <<>>
    ELSE LET k == Head(ks)
             rest == Members(o, Tail(ks))
         IN  IF Has(o, k)
             THEN <<k, ":", o[k]>> \o (IF rest = <<>> THEN <<>> ELSE <<",">> \o rest)
             ELSE rest

JSON_stringify_firstMember(o) == <<"{">> \o Members(o, <<Head(PropertyOrder)>>) \o <<"}">>

JSON_stringify(o) == <<"{">> \o Members(o, PropertyOrder) \o <<"}">>

JSON_parse(text) ==
    LET inner == SubSeq(text, 2, Len(text) - 1)
        n == (Len(inner) + 1) \div 4
        keyAt(i) == inner[4 * i - 3]
        valAt(i) == inner[4 * i - 1]
    IN  [k \in {keyAt(i) : i \in 1..n} |->
            valAt(CHOOSE i \in 1..n : keyAt(i) = k /\ \A j \in (i + 1)..n : keyAt(j) # k)]

(***************************************************************************)
(* Storage primitives (the Storage interface of the browser).              *)
(***************************************************************************)
HasItem(ls, key) == key \in DOMAIN ls
setItem(ls, key, value) == (key :> value) @@ ls
removeItem(ls, key) == [k \in DOMAIN ls \ {key} |-> ls[k]]

(***************************************************************************)
(* TOKEN MANAGEMENT                                                        *)
(***************************************************************************)
getToken ==
    IF ~hasWindow THEN Null
    ELSE IF HasItem(localStorage, TOKEN_KEY) THEN localStorage[TOKEN_KEY] ELSE Null

setToken_noWindowCheck(ls, token) == setItem(ls, TOKEN_KEY, token)

setToken(ls, token) ==
    IF ~hasWindow THEN ls ELSE setItem(ls, TOKEN_KEY, token)

clearToken_tokenOnly(ls) ==
    IF ~hasWindow THEN ls ELSE removeItem(ls, TOKEN_KEY)

clearToken(ls) ==
    IF ~hasWindow THEN ls
    ELSE removeItem(removeItem(ls, TOKEN_KEY), USER_KEY)

getStoredUser ==
    IF ~hasWindow THEN NullObject
    ELSE IF HasItem(localStorage, USER_KEY) /\ localStorage[USER_KEY] # <<>>
         THEN JSON_parse(localStorage[USER_KEY])
         ELSE NullObject

setStoredUser(ls, user) ==
    IF ~hasWindow THEN ls ELSE setItem(ls, USER_KEY, JSON_stringify(user))

isAuthenticated_userSlot == hasWindow /\ HasItem(localStorage, USER_KEY)

\* !!getToken(): a string is truthy unless it is empty; null is falsy
isAuthenticated == getToken # Null /\ getToken # ""

(***************************************************************************)
(* API CLIENT: responses and errors.                                       *)
(***************************************************************************)
Statuses == {200, 401, 500}

statusText(status) ==
    CASE status = 200 -> "OK"
      [] status = 401 -> "Unauthorized"
      [] status = 500 -> "Internal Server Error"

ok(status) == status >= 200 /\ status <= 299

\* JSON objects a backend answers with.  Objects carrying a token follow the
\* AuthResponse interface (user is not optional there).
Payloads ==
    {EmptyObject, [error |-> "Invalid credentials"], [error |-> ""], [code |-> "c/d="]}
    \cup {[success |-> "true", message |-> "Welcome", user |-> Session[t]] : t \in {"T1"}}
    \cup {[success |-> "true", message |-> "Welcome", user |-> Session[t], token |-> t] :
            t \in Tokens}

\* What fetch delivers: a rejection (transport failure) or a response whose
\* body text is empty, the JSON text of an object, the JSON text null, or
\* text that is not JSON.
Responses ==
    {[kind |-> "reject"]}
    \cup {[kind |-> "response", status |-> s, body |-> b] :
            s \in Statuses, b \in {"empty", "null", "invalid"}}
    \cup {[kind |-> "response", status |-> s, body |-> "json", json |-> d] :
            s \in Statuses, d \in Payloads}

TypeError(msg) == [name |-> "TypeError", message |-> msg]
SyntaxError(msg) == [name |-> "SyntaxError", message |-> msg]

ApiError_genericMessage(status, text, data) ==
    [name |-> "ApiError", status |-> status, statusText |-> text, data |-> data,
     message |-> "API Error: " \o ToString(status) \o " " \o text]

\* class ApiError: message is data.error if truthy, else the generic text
ApiError(status, text, data) ==
    [name |-> "ApiError", status |-> status, statusText |-> text, data |-> data,
     message |-> IF Has(data, "error") /\ data.error # ""
                 THEN data.error
                 ELSE "API Error: " \o ToString(status) \o " " \o text]

Return(value) == [threw |-> FALSE, value |-> value]
Throw(error) == [threw |-> TRUE, value |-> error]

(***************************************************************************)
(* apiRequest, first half: from the call to the call of fetch.             *)
(***************************************************************************)
Methods == {"GET", "POST"}

\* headers a caller may pass in options.headers (property names are
\* case-sensitive in the object, case-insensitive on the wire)
CallerHeaders ==
    {EmptyObject,
     [Authorization |-> "Basic caller"],
     [authorization |-> "Basic caller"]}

RequestOptions ==
    [method : Methods, body : BOOLEAN, headers : CallerHeaders, skipAuth : BOOLEAN]

\* the options api.get / api.post build for the service tables
apiGet == [method |-> "GET", body |-> FALSE, headers |-> EmptyObject, skipAuth |-> FALSE]
apiPost == [method |-> "POST", body |-> TRUE, headers |-> EmptyObject, skipAuth |-> FALSE]

requestHeaders_noTokenCheck(options) ==
    LET base == options.headers @@ ("Content-Type" :> "application/json")
    IN  IF ~options.skipAuth
        THEN ("Authorization" :> ("Bearer " \o getToken)) @@ base
        ELSE base

requestHeaders(options) ==
    LET base == options.headers @@ ("Content-Type" :> "application/json")
        token == getToken
    IN  IF ~options.skipAuth /\ token # Null /\ token # ""
        THEN ("Authorization" :> ("Bearer " \o token)) @@ base
        ELSE base

\* config.body is set only for a truthy body and a method other than GET
configBody(options) == options.body /\ options.method # "GET"

\* The Authorization header fetch puts on the wire for a headers object: the
\* values of all properties whose name is "authorization" up to case, in
\* property order (a caller's property precedes the one the dispatcher adds).
wireAuthorization(h) ==
    (IF Has(h, "authorization") THEN <<h["authorization"]>> ELSE <<>>)
    \o (IF Has(h, "Authorization") THEN <<h["Authorization"]>> ELSE <<>>)

(***************************************************************************)
(* apiRequest, second half: from the settling of fetch to return / throw.  *)
(* The result says whether clearToken() ran and what the call produced.    *)
(***************************************************************************)
apiRequest_returnsOnError(resp) ==
    IF resp.kind = "reject" THEN [clears |-> FALSE, out |-> Throw(TypeError("Failed to fetch"))]
    ELSE IF resp.body = "invalid"
    THEN [clears |-> FALSE, out |-> Throw(SyntaxError("Unexpected token"))]
    ELSE LET data == CASE resp.body = "empty" -> EmptyObject
                       [] resp.body = "null" -> NullObject
                       [] resp.body = "json" -> resp.json
         IN  [clears |-> resp.status = 401, out |-> Return(data)]

apiRequest_clearOnAnyError(resp) ==
    IF resp.kind = "reject" THEN [clears |-> FALSE, out |-> Throw(TypeError("Failed to fetch"))]
    ELSE IF resp.body = "invalid"
    THEN [clears |-> FALSE, out |-> Throw(SyntaxError("Unexpected token"))]
    ELSE LET data == CASE resp.body = "empty" -> EmptyObject
                       [] resp.body = "null" -> NullObject
                       [] resp.body = "json" -> resp.json
             clears == ~ok(resp.status)
         IN  IF ~ok(resp.status)
             THEN IF data = NullObject
                  THEN [clears |-> clears, out |-> Throw(TypeError("Cannot read properties of null"))]
                  ELSE [clears |-> clears,
                        out |-> Throw(ApiError(resp.status, statusText(resp.status), data))]
             ELSE [clears |-> clears, out |-> Return(data)]

apiRequest_parsesEmptyBody(resp) ==
    IF resp.kind = "reject" THEN [clears |-> FALSE, out |-> Throw(TypeError("Failed to fetch"))]
    ELSE IF resp.body \in {"invalid", "empty"}
    THEN [clears |-> FALSE, out |-> Throw(SyntaxError("Unexpected token"))]
    ELSE LET data == CASE resp.body = "null" -> NullObject
                       [] resp.body = "json" -> resp.json
             clears == resp.status = 401
         IN  IF ~ok(resp.status)
             THEN IF data = NullObject
                  THEN [clears |-> clears, out |-> Throw(TypeError("Cannot read properties of null"))]
                  ELSE [clears |-> clears,
                        out |-> Throw(ApiError(resp.status, statusText(resp.status), data))]
             ELSE [clears |-> clears, out |-> Return(data)]

apiRequest(resp) ==
    IF resp.kind = "reject"
    THEN \* await fetch(...) rejects: nothing after it runs
         [clears |-> FALSE, out |-> Throw(TypeError("Failed to fetch"))]
    ELSE IF resp.body = "invalid"
    THEN \* JSON.parse(text) throws before the status is looked at
         [clears |-> FALSE, out |-> Throw(SyntaxError("Unexpected token"))]
    ELSE LET data == CASE resp.body = "empty" -> EmptyObject
                       [] resp.body = "null" -> NullObject
                       [] resp.body = "json" -> resp.json
             clears == resp.status = 401
         IN  IF ~ok(resp.status)
             THEN IF data = NullObject
                  THEN \* new ApiError(..., null) reads null.error
                       [clears |-> clears, out |-> Throw(TypeError("Cannot read properties of null"))]
                  ELSE [clears |-> clears,
                        out |-> Throw(ApiError(resp.status, statusText(resp.status), data))]
             ELSE [clears |-> clears, out |-> Return(data)]

(***************************************************************************)
(* AUTH SERVICE: what the service methods do with the settled request.     *)
(* Each takes the storage left by apiRequest and its outcome, and yields   *)
(* the storage and the outcome the caller of the method sees.              *)
(***************************************************************************)
authApi_login_tokenOnly(ls, out) ==
    IF out.threw THEN [ls |-> ls, out |-> out]
    ELSE IF out.value = NullObject
    THEN [ls |-> ls, out |-> Throw(TypeError("Cannot read properties of null"))]
    ELSE IF Has(out.value, "token") /\ out.value.token # ""
    THEN [ls |-> setToken(ls, out.value.token), out |-> out]
    ELSE [ls |-> ls, out |-> out]

authApi_login(ls, out) ==
    IF out.threw THEN [ls |-> ls, out |-> out]
    ELSE IF out.value = NullObject
    THEN [ls |-> ls, out |-> Throw(TypeError("Cannot read properties of null"))]
    ELSE IF Has(out.value, "token") /\ out.value.token # ""
    THEN [ls |-> setStoredUser(setToken(ls, out.value.token), out.value.user), out |-> out]
    ELSE [ls |-> ls, out |-> out]

authApi_register_tokenOnly(ls, out) ==
    IF out.threw THEN [ls |-> ls, out |-> out]
    ELSE IF out.value = NullObject
    THEN [ls |-> ls, out |-> Throw(TypeError("Cannot read properties of null"))]
    ELSE IF Has(out.value, "token") /\ out.value.token # ""
    THEN [ls |-> setToken(ls, out.value.token), out |-> out]
    ELSE [ls |-> ls, out |-> out]

authApi_register(ls, out) ==
    IF out.threw THEN [ls |-> ls, out |-> out]
    ELSE IF out.value = NullObject
    THEN [ls |-> ls, out |-> Throw(TypeError("Cannot read properties of null"))]
    ELSE IF Has(out.value, "token") /\ out.value.token # ""
    THEN [ls |-> setStoredUser(setToken(ls, out.value.token), out.value.user), out |-> out]
    ELSE [ls |-> ls, out |-> out]

authApi_logout_noFinally(ls, out) ==
    IF out.threw THEN [ls |-> ls, out |-> out] ELSE [ls |-> clearToken(ls), out |-> out]

\* try { return await api.post(...) } finally { clearToken() }
authApi_logout(ls, out) == [ls |-> clearToken(ls), out |-> out]

\* authApi.loginForApp: the variant endpoint answers with a one-time code;
\* the method hands the response on and stores nothing
authApi_loginForApp(ls, out) == [ls |-> ls, out |-> out]

Ops == {"request", "login", "register", "logout"}

\* the whole continuation of a call of kind op once fetch has settled
settle(op, ls, resp) ==
    LET api == apiRequest(resp)
        ls1 == IF api.clears THEN clearToken(ls) ELSE ls
    IN  CASE op = "login" -> authApi_login(ls1, api.out)
          [] op = "register" -> authApi_register(ls1, api.out)
          [] op = "logout" -> authApi_logout(ls1, api.out)
          [] op = "loginForApp" -> authApi_loginForApp(ls1, api.out)
          [] OTHER -> [ls |-> ls1, out |-> api.out]

(***************************************************************************)
(* State after construction.  Outside a browser there is no storage and   *)
(* no page; in a browser the storage holds what an earlier visit left.     *)
(***************************************************************************)
NoPage == [name |-> "none"]

StoredSessions ==
    {EmptyObject}
    \cup {setStoredUser(setToken(EmptyObject, t), Session[t]) : t \in Tokens}

InitClient ==
    /\ hasWindow \in BOOLEAN
    /\ localStorage \in (IF hasWindow THEN StoredSessions ELSE {EmptyObject})
    /\ inflight = EmptyBag
    /\ page = "none"
    /\ form = NoPage
    /\ timers = {}
    /\ location = <<>>
    /\ GatewayResolved
    /\ ev = [kind |-> "init"]

(***************************************************************************)
(* Requests.  A call runs synchronously up to fetch (Dispatch) and resumes *)
(* when fetch settles (Complete...); the awaits after it resume in         *)
(* microtasks of the same task, so the continuation is one step.           *)
(***************************************************************************)
CanDispatch == hasWindow /\ BagCardinality(inflight) < MaxInflight

\* the request as fetch sends it: who awaits it, and its Authorization header
request(op, src, options) ==
    [op |-> op, src |-> src, auth |-> wireAuthorization(requestHeaders(options))]

dispatched(op, src, options) ==
    [kind |-> "dispatch", op |-> op, src |-> src, options |-> options,
     token |-> getToken,
     auth |-> wireAuthorization(requestHeaders(options)),
     sendsBody |-> configBody(options)]

\* apiRequest(endpoint, options) called directly
ApiRequest(options) ==
    /\ CanDispatch
    /\ inflight' = inflight (+) SetToBag({request("request", "api", options)})
    /\ ev' = dispatched("request", "api", options)
    /\ UNCHANGED <<gatewayVars, hasWindow, localStorage, page, form, timers, location>>

\* authApi.login / register / logout called directly (api.post underneath)
AuthCall(op) ==
    /\ CanDispatch
    /\ inflight' = inflight (+) SetToBag({request(op, "api", apiPost)})
    /\ ev' = dispatched(op, "api", apiPost)
    /\ UNCHANGED <<gatewayVars, hasWindow, localStorage, page, form, timers, location>>

completed(r, resp, s) ==
    [kind |-> "complete", op |-> r.op, src |-> r.src, sentAuth |-> r.auth,
     before |-> localStorage, resp |-> resp, api |-> apiRequest(resp).out, out |-> s.out]

\* fetch settles for a request that was not issued by the mounted page
Complete(r, resp) ==
    /\ BagIn(r, inflight)
    /\ r.src = "api"
    /\ LET s == settle(r.op, localStorage, resp)
       IN  /\ localStorage' = s.ls
           /\ ev' = completed(r, resp, s)
    /\ inflight' = inflight (-) SetToBag({r})
    /\ UNCHANGED <<gatewayVars, hasWindow, page, form, timers, location>>

NextClient ==
    \/ \E o \in RequestOptions : ApiRequest(o)
    \/ \E op \in Ops \ {"request"} : AuthCall(op)
    \/ \E r \in BagToSet(inflight), resp \in Responses : Complete(r, resp)

Spec == InitClient /\ [][NextClient]_vars

(***************************************************************************)
(* The session store called directly (its six exported functions), in a    *)
(* browser and during server rendering.  ev names the call, what it was    *)
(* given or what it returned, and the call made right before it.           *)
(***************************************************************************)
\* objects a caller hands to setStoredUser
UserObjects == AuthUser \cup {EmptyObject, [id |-> "1"]}

called(op) ==
    [kind |-> "store", op |-> op, before |-> localStorage,
     after |-> IF ev.kind = "store" THEN ev.op ELSE "none"]

SetToken(token) ==
    /\ localStorage' = setToken(localStorage, token)
    /\ ev' = called("setToken") @@ [token |-> token]
    /\ UNCHANGED <<gatewayVars, hasWindow, inflight, page, form, timers, location>>

SetStoredUser(user) ==
    /\ localStorage' = setStoredUser(localStorage, user)
    /\ ev' = called("setStoredUser") @@ [user |-> user]
    /\ UNCHANGED <<gatewayVars, hasWindow, inflight, page, form, timers, location>>

ClearToken ==
    /\ localStorage' = clearToken(localStorage)
    /\ ev' = called("clearToken")
    /\ UNCHANGED <<gatewayVars, hasWindow, inflight, page, form, timers, location>>

GetToken ==
    /\ ev' = called("getToken") @@ [token |-> getToken]
    /\ UNCHANGED <<gatewayVars, hasWindow, localStorage, inflight, page, form, timers, location>>

GetStoredUser ==
    /\ ev' = called("getStoredUser") @@ [user |-> getStoredUser]
    /\ UNCHANGED <<gatewayVars, hasWindow, localStorage, inflight, page, form, timers, location>>

IsAuthenticated ==
    /\ ev' = called("isAuthenticated") @@ [authed |-> isAuthenticated]
    /\ UNCHANGED <<gatewayVars, hasWindow, localStorage, inflight, page, form, timers, location>>

NextStore ==
    \/ \E t \in Tokens : SetToken(t)
    \/ \E u \in UserObjects : SetStoredUser(u)
    \/ ClearToken
    \/ GetToken
    \/ GetStoredUser
    \/ IsAuthenticated

SpecStore == InitClient /\ [][NextStore]_vars

(***************************************************************************)
(* Loading the client module: the process starts with some environment,    *)
(* the module is evaluated once and its constant API_BASE_URL is used by   *)
(* every request.  A server process may change its environment later.      *)
(***************************************************************************)
EnvValues == {Null, "", "https://staging.hotstart.dev", GATEWAY_URL}
Hostnames == {"localhost", "hotstart.dev", "preview.hotstart.dev"}
Endpoints == {"/auth/login", "/auth/register", "/auth/me", "/auth/logout"}

InitGateway ==
    /\ hasWindow \in BOOLEAN
    /\ localStorage = EmptyObject
    /\ inflight = EmptyBag
    /\ page = "none"
    /\ form = NoPage
    /\ timers = {}
    /\ location = <<>>
    /\ env \in EnvValues
    /\ hostname \in (IF hasWindow THEN Hostnames ELSE {Null})
    /\ API_BASE_URL = Null
    /\ ev = [kind |-> "init"]

\* const API_BASE_URL = getGatewayUrl(), evaluated when the module is loaded
LoadModule ==
    /\ API_BASE_URL = Null
    /\ API_BASE_URL' = getGatewayUrl
    /\ ev' = [kind |-> "load", env |-> env, hasWindow |-> hasWindow, hostname |-> hostname]
    /\ UNCHANGED <<hasWindow, localStorage, inflight, page, form, timers, location,
                   env, hostname>>

\* the environment of a running server process is changed
SetEnv(value) ==
    /\ ~hasWindow
    /\ env # value
    /\ env' = value
    /\ ev' = [kind |-> "env"]
    /\ UNCHANGED <<hasWindow, localStorage, inflight, page, form, timers, location,
                   hostname, API_BASE_URL>>

\* apiRequest computes the URL of a request
RequestUrl(endpoint) ==
    /\ API_BASE_URL # Null
    /\ ev' = [kind |-> "url", endpoint |-> endpoint, url |-> requestUrl(endpoint)]
    /\ UNCHANGED <<hasWindow, localStorage, inflight, page, form, timers, location,
                   gatewayVars>>

NextGateway ==
    \/ LoadModule
    \/ \E v \in EnvValues : SetEnv(v)
    \/ \E e \in Endpoints : RequestUrl(e)

SpecGateway == InitGateway /\ [][NextGateway]_vars

(***************************************************************************)
(* PAGES.  Text typed by the user or taken from the URL is a sequence of   *)
(* characters, so that trim, length and the regular expressions work on    *)
(* what the code works on.                                                 *)
(***************************************************************************)
WhiteSpace == {" ", "\t", "\n", "\r"}
LineTerminators == {"\n", "\r"}
\* \w of a JavaScript regular expression
WordChars ==
    {"a", "b", "c", "d", "e", "f", "g", "h", "i", "j", "k", "l", "m",
     "n", "o", "p", "q", "r", "s", "t", "u", "v", "w", "x", "y", "z",
     "A", "B", "C", "D", "E", "F", "G", "H", "I", "J", "K", "L", "M",
     "N", "O", "P", "Q", "R", "S", "T", "U", "V", "W", "X", "Y", "Z",
     "0", "1", "2", "3", "4", "5", "6", "7", "8", "9", "_"}

StartsWith(str, prefix) ==
    Len(str) >= Len(prefix) /\ SubSeq(str, 1, Len(prefix)) = prefix

\* str.trim() === ''
trimIsEmpty(str) == \A i \in 1..Len(str) : str[i] \in WhiteSpace

(***************************************************************************)
(* Redirect allow-list of the shared login page.                           *)
(***************************************************************************)
DeepLink == <<"h", "o", "t", "s", "t", "a", "r", "t", ":", "/", "/", "a", "u", "t", "h", "/", "c", "a", "l", "l", "b", "a", "c", "k">>
WebOrigin == <<"h", "t", "t", "p", "s", ":", "/", "/", "h", "o", "t", "s", "t", "a", "r", "t", ".", "d", "e", "v">>
WwwOrigin == <<"h", "t", "t", "p", "s", ":", "/", "/", "w", "w", "w", ".", "h", "o", "t", "s", "t", "a", "r", "t", ".", "d", "e", "v">>

\* /^https:\/\/host(\/.*)?$/ for the literal prefix origin
matchesOrigin(uri, origin) ==
    /\ StartsWith(uri, origin)
    /\ \/ Len(uri) = Len(origin)
       \/ /\ uri[Len(origin) + 1] = "/"
          /\ \A i \in (Len(origin) + 2)..Len(uri) : uri[i] \notin LineTerminators

\* /^\/[\w/-]*$/
matchesRelativePath(uri) ==
    /\ Len(uri) >= 1
    /\ uri[1] = "/"
    /\ \A i \in 2..Len(uri) : uri[i] \in WordChars \cup {"/", "-"}

ALLOWED_REDIRECT_PATTERNS(uri) ==
    <<uri = DeepLink,
      matchesOrigin(uri, WebOrigin),
      matchesOrigin(uri, WwwOrigin),
      matchesRelativePath(uri)>>

isValidRedirectUri(uri) ==
    \E i \in 1..4 : ALLOWED_REDIRECT_PATTERNS(uri)[i]

(***************************************************************************)
(* Inputs of the pages.                                                    *)
(***************************************************************************)
\* values of the redirect_uri query parameter (<<>>: absent or empty)
RedirectParams ==
    {<<>>,
     DeepLink,
     <<"h", "t", "t", "p", "s", ":", "/", "/", "h", "o", "t", "s", "t", "a", "r", "t", ".", "d", "e", "v", "/", "d", "a", "s", "h", "b", "o", "a", "r", "d">>,
     <<"/", "d", "a", "s", "h", "b", "o", "a", "r", "d">>,
     <<"h", "t", "t", "p", "s", ":", "/", "/", "e", "v", "i", "l", ".", "e", "x", "a", "m", "p", "l", "e", ".", "c", "o", "m">>,
     <<"h", "t", "t", "p", "s", ":", "/", "/", "h", "o", "t", "s", "t", "a", "r", "t", ".", "d", "e", "v", ".", "e", "v", "i", "l", ".", "c", "o", "m">>,
     <<"/", "/", "e", "v", "i", "l">>,
     <<"h", "t", "t", "p", "s", ":", "/", "/", "h", "o", "t", "s", "t", "a", "r", "t", ".", "d", "e", "v", "/", "c", "b", "?", "x", "=", "1">>}

\* values of the client query parameter (<<>>: absent or empty)
ClientParams == {<<>>, <<"w", "e", "b">>, <<"a", "p", "p">>}

Emails == {<<>>, <<" ">>, <<"u", "s", "e", "r">>, <<"a", "@", "b", ".", "c">>}
Passwords == {<<>>, <<"p", "w">>, <<"p", "a", "s", "s", "w", "o", "r", "d", "1">>}

MSG_UNEXPECTED == "An unexpected error occurred. Please try again."
MSG_REDIRECT == "Invalid redirect destination. Please close this page and try again."

\* encodeURIComponent on the one-time codes of the model
encodeURIComponent(str) ==
    CASE str = "c0de" -> <<"c", "0", "d", "e">>
      [] str = "c/d=" -> <<"c", "%", "2", "F", "d", "%", "3", "D">>

(***************************************************************************)
(* Shared login page (web + desktop app).                                  *)
(***************************************************************************)
\* state of LoginForm after the first render and its mount effect
LoginForm(clientParam, redirectParam) ==
    LET client == IF clientParam # <<>> THEN clientParam ELSE <<"w", "e", "b">>
        redirectUri == IF redirectParam # <<>> THEN redirectParam ELSE <<"/", "d", "a", "s", "h", "b", "o", "a", "r", "d">>
    IN  [name |-> "login",
         client |-> client,
         redirectUri |-> redirectUri,
         isAppLogin |-> (client = <<"a", "p", "p">>),
         email |-> <<>>, password |-> <<>>,
         error |-> "", success |-> "", isLoading |-> FALSE,
         redirectError |-> IF ~isValidRedirectUri(redirectUri)
                           THEN "Invalid redirect destination" ELSE ""]

LoginForm_validateForm_emailOnly(f) ==
    IF trimIsEmpty(f.email) THEN "Email is required" ELSE ""

\* '' stands for the null of "no validation error"
LoginForm_validateForm(f) ==
    IF trimIsEmpty(f.email) THEN "Email is required"
    ELSE IF f.password = <<>> THEN "Password is required"
    ELSE ""

\* handleSubmit up to the first await: "blocked", "invalid" or "dispatch",
\* with the form state it leaves
LoginForm_handleSubmit_noRedirectGuard(f) ==
    LET cleared == [f EXCEPT !.error = "", !.success = ""]
        validationError == LoginForm_validateForm(cleared)
    IN  IF validationError # ""
        THEN [step |-> "invalid", form |-> [cleared EXCEPT !.error = validationError]]
        ELSE [step |-> "dispatch", form |-> [cleared EXCEPT !.isLoading = TRUE]]

LoginForm_handleSubmit_keepsSuccess(f) ==
    LET cleared == [f EXCEPT !.error = ""]
        validationError == LoginForm_validateForm(cleared)
    IN  IF cleared.redirectError # ""
        THEN [step |-> "blocked", form |-> [cleared EXCEPT !.error = MSG_REDIRECT]]
        ELSE IF validationError # ""
        THEN [step |-> "invalid", form |-> [cleared EXCEPT !.error = validationError]]
        ELSE [step |-> "dispatch", form |-> [cleared EXCEPT !.isLoading = TRUE]]

LoginForm_handleSubmit(f) ==
    LET cleared == [f EXCEPT !.error = "", !.success = ""]
        validationError == LoginForm_validateForm(cleared)
    IN  IF cleared.redirectError # ""
        THEN [step |-> "blocked", form |-> [cleared EXCEPT !.error = MSG_REDIRECT]]
        ELSE IF validationError # ""
        THEN [step |-> "invalid", form |-> [cleared EXCEPT !.error = validationError]]
        ELSE [step |-> "dispatch", form |-> [cleared EXCEPT !.isLoading = TRUE]]

\* catch (err) { ... } of the forms
catchMessage(error) ==
    IF error.name = "ApiError" THEN error.message ELSE MSG_UNEXPECTED

\* handleSubmit after the await: the form state and the redirect it schedules
LoginForm_resume_noCatch(f, out) ==
    LET done(g) == [g EXCEPT !.isLoading = FALSE]
    IN  IF out.threw \/ out.value = NullObject THEN [form |-> done(f), timer |-> {}]
        ELSE IF f.isAppLogin
        THEN IF Has(out.value, "code") /\ out.value.code # ""
             THEN [form |-> done([f EXCEPT !.success = "Authentication successful!"]),
                   timer |-> {f.redirectUri \o <<"?", "c", "o", "d", "e", "=">> \o encodeURIComponent(out.value.code)}]
             ELSE [form |-> done(f), timer |-> {}]
        ELSE [form |-> done([f EXCEPT !.success =
                                IF Has(out.value, "message") THEN out.value.message ELSE ""]),
              timer |-> {f.redirectUri}]

LoginForm_resume_noFinally(f, out) ==
    LET failed(msg) == [form |-> [f EXCEPT !.error = msg], timer |-> {}]
    IN  IF out.threw THEN failed(catchMessage(out.value))
        ELSE IF out.value = NullObject THEN failed(MSG_UNEXPECTED)
        ELSE IF f.isAppLogin
        THEN IF Has(out.value, "code") /\ out.value.code # ""
             THEN [form |-> [f EXCEPT !.success = "Authentication successful!", !.isLoading = FALSE],
                   timer |-> {f.redirectUri \o <<"?", "c", "o", "d", "e", "=">> \o encodeURIComponent(out.value.code)}]
             ELSE failed(MSG_UNEXPECTED)
        ELSE [form |-> [f EXCEPT !.success =
                                IF Has(out.value, "message") THEN out.value.message ELSE "",
                             !.isLoading = FALSE],
              timer |-> {f.redirectUri}]

LoginForm_resume(f, out) ==
    LET done(g) == [g EXCEPT !.isLoading = FALSE]
        failed(msg) == [form |-> done([f EXCEPT !.error = msg]), timer |-> {}]
    IN  IF out.threw THEN failed(catchMessage(out.value))
        ELSE IF out.value = NullObject THEN failed(MSG_UNEXPECTED)
        ELSE IF f.isAppLogin
        THEN IF Has(out.value, "code") /\ out.value.code # ""
             THEN [form |-> done([f EXCEPT !.success = "Authentication successful!"]),
                   timer |-> {f.redirectUri \o <<"?", "c", "o", "d", "e", "=">> \o encodeURIComponent(out.value.code)}]
             ELSE failed(MSG_UNEXPECTED)
        ELSE [form |-> done([f EXCEPT !.success =
                                IF Has(out.value, "message") THEN out.value.message ELSE ""]),
              timer |-> {f.redirectUri}]

(***************************************************************************)
(* Register page.                                                          *)
(***************************************************************************)
RegisterPage ==
    [name |-> "register",
     email |-> <<>>, password |-> <<>>, confirmPassword |-> <<>>,
     error |-> "", success |-> "", isLoading |-> FALSE]

\* /^[^\s@]+@[^\s@]+\.[^\s@]+$/
emailRegex(str) ==
    \E at \in 2..Len(str), dot \in 4..Len(str) :
        /\ at + 1 < dot /\ dot < Len(str)
        /\ str[at] = "@" /\ str[dot] = "."
        /\ \A i \in (1..(at - 1)) \cup ((at + 1)..(dot - 1)) \cup ((dot + 1)..Len(str)) :
              str[i] \notin WhiteSpace \cup {"@"}

RegisterPage_validateForm_noConfirm(f) ==
    IF trimIsEmpty(f.email) THEN "Email is required"
    ELSE IF ~emailRegex(f.email) THEN "Please enter a valid email address"
    ELSE IF f.password = <<>> THEN "Password is required"
    ELSE IF Len(f.password) < 8 THEN "Password must be at least 8 characters long"
    ELSE ""

RegisterPage_validateForm(f) ==
    IF trimIsEmpty(f.email) THEN "Email is required"
    ELSE IF ~emailRegex(f.email) THEN "Please enter a valid email address"
    ELSE IF f.password = <<>> THEN "Password is required"
    ELSE IF Len(f.password) < 8 THEN "Password must be at least 8 characters long"
    ELSE IF f.password # f.confirmPassword THEN "Passwords do not match"
    ELSE ""

RegisterPage_handleSubmit(f) ==
    LET cleared == [f EXCEPT !.error = "", !.success = ""]
        validationError == RegisterPage_validateForm(cleared)
    IN  IF validationError # ""
        THEN [step |-> "invalid", form |-> [cleared EXCEPT !.error = validationError]]
        ELSE [step |-> "dispatch", form |-> [cleared EXCEPT !.isLoading = TRUE]]

\* handleSubmit after the await: form state, the 'user' item it writes to
\* storage (JSON.stringify(undefined) is stored as the text undefined) and
\* the redirect it schedules
RegisterPage_resume(f, ls, out) ==
    LET done(g) == [g EXCEPT !.isLoading = FALSE]
        failed(msg) == [form |-> done([f EXCEPT !.error = msg]), ls |-> ls, timer |-> {}]
    IN  IF out.threw THEN failed(catchMessage(out.value))
        ELSE IF out.value = NullObject THEN failed(MSG_UNEXPECTED)
        ELSE [form |-> done([f EXCEPT !.success = "Account created! Signing you in..."]),
              ls |-> setItem(ls, "user",
                             IF Has(out.value, "user") THEN JSON_stringify(out.value.user)
                             ELSE <<"undefined">>),
              timer |-> {<<"/", "d", "a", "s", "h", "b", "o", "a", "r", "d">>}]

(***************************************************************************)
(* Actions of the pages.                                                   *)
(***************************************************************************)
InitForms ==
    /\ hasWindow = TRUE
    /\ localStorage \in StoredSessions
    /\ inflight = EmptyBag
    /\ page = "none"
    /\ form = NoPage
    /\ timers = {}
    /\ location = <<>>
    /\ GatewayResolved
    /\ ev = [kind |-> "init"]

\* the browser loads /login?client=...&redirect_uri=...
OpenLogin(clientParam, redirectParam) ==
    /\ hasWindow /\ page = "none"
    /\ page' = "login"
    /\ form' = LoginForm(clientParam, redirectParam)
    /\ ev' = [kind |-> "open", page |-> "login"]
    /\ UNCHANGED <<gatewayVars, hasWindow, localStorage, inflight, timers, location>>

\* the browser loads /register
OpenRegister ==
    /\ hasWindow /\ page = "none"
    /\ page' = "register"
    /\ form' = RegisterPage
    /\ ev' = [kind |-> "open", page |-> "register"]
    /\ UNCHANGED <<gatewayVars, hasWindow, localStorage, inflight, timers, location>>

disabled_never(f) == FALSE

\* disabled={isLoading} on the inputs and on the submit button of a form: a
\* disabled control fires no onChange and no onSubmit
disabled(f) == f.isLoading

\* if (success && isAppLogin) return <the success screen>: once the app login
\* has succeeded the form is no longer rendered
rendersForm(f) == ~(Has(f, "isAppLogin") /\ f.isAppLogin /\ f.success # "")

\* onChange of an input
Type(field, text) ==
    /\ page \in {"login", "register"}
    /\ rendersForm(form) /\ ~disabled(form)
    /\ Has(form, field)
    /\ form[field] # text
    /\ form' = [form EXCEPT ![field] = text]
    /\ ev' = [kind |-> "input", page |-> page]
    /\ UNCHANGED <<gatewayVars, hasWindow, localStorage, inflight, page, timers, location>>

submitted(h, op) ==
    [kind |-> "submit", page |-> page, step |-> h.step, op |-> op,
     before |-> localStorage, token |-> getToken]

\* onSubmit of the login form
SubmitLogin ==
    /\ page = "login"
    /\ rendersForm(form) /\ ~disabled(form)
    /\ LET h == LoginForm_handleSubmit(form)
           op == IF form.isAppLogin THEN "loginForApp" ELSE "login"
       IN  /\ form' = h.form
           /\ ev' = submitted(h, op)
           /\ IF h.step = "dispatch"
              THEN /\ CanDispatch
                   /\ inflight' = inflight (+) SetToBag({request(op, "page", apiPost)})
              ELSE inflight' = inflight
    /\ UNCHANGED <<gatewayVars, hasWindow, localStorage, page, timers, location>>

\* onSubmit of the register form
SubmitRegister ==
    /\ page = "register"
    /\ ~disabled(form)
    /\ LET h == RegisterPage_handleSubmit(form)
       IN  /\ form' = h.form
           /\ ev' = submitted(h, "register")
           /\ IF h.step = "dispatch"
              THEN /\ CanDispatch
                   /\ inflight' = inflight (+) SetToBag({request("register", "page", apiPost)})
              ELSE inflight' = inflight
    /\ UNCHANGED <<gatewayVars, hasWindow, localStorage, page, timers, location>>

\* fetch settles for the request of the login form
CompleteLogin(r, resp) ==
    /\ page = "login"
    /\ BagIn(r, inflight) /\ r.src = "page"
    /\ LET s == settle(r.op, localStorage, resp)
           k == LoginForm_resume(form, s.out)
       IN  /\ localStorage' = s.ls
           /\ form' = k.form
           /\ timers' = timers \cup k.timer
           /\ ev' = completed(r, resp, s)
    /\ inflight' = inflight (-) SetToBag({r})
    /\ UNCHANGED <<gatewayVars, hasWindow, page, location>>

\* fetch settles for the request of the register form
CompleteRegister(r, resp) ==
    /\ page = "register"
    /\ BagIn(r, inflight) /\ r.src = "page"
    /\ LET s == settle(r.op, localStorage, resp)
           k == RegisterPage_resume(form, s.ls, s.out)
       IN  /\ localStorage' = k.ls
           /\ form' = k.form
           /\ timers' = timers \cup k.timer
           /\ ev' = completed(r, resp, s)
    /\ inflight' = inflight (-) SetToBag({r})
    /\ UNCHANGED <<gatewayVars, hasWindow, page, location>>

\* a setTimeout callback runs: window.location.href = url unloads the page,
\* and with it its timers and the continuations of its requests
Redirect(url) ==
    /\ url \in timers
    /\ location' = url
    /\ ev' = [kind |-> "redirect", page |-> page, url |-> url, from |-> form,
              token |-> getToken]
    /\ page' = "none"
    /\ form' = NoPage
    /\ timers' = {}
    /\ inflight' = EmptyBag
    /\ UNCHANGED <<gatewayVars, hasWindow, localStorage>>

NextForms ==
    \/ \E c \in ClientParams, u \in RedirectParams : OpenLogin(c, u)
    \/ OpenRegister
    \/ \E text \in Emails : Type("email", text)
    \/ \E text \in Passwords : Type("password", text)
    \/ \E text \in Passwords : Type("confirmPassword", text)
    \/ SubmitLogin
    \/ SubmitRegister
    \/ \E r \in BagToSet(inflight), resp \in Responses : CompleteLogin(r, resp)
    \/ \E r \in BagToSet(inflight), resp \in Responses : CompleteRegister(r, resp)
    \/ \E url \in timers : Redirect(url)

SpecForms == InitForms /\ [][NextForms]_vars

(***************************************************************************)
(* Dashboard page.  Its React state is the user it displays; the effect    *)
(* runs once, when the page has mounted.                                   *)
(***************************************************************************)
LoginPath == <<"/", "l", "o", "g", "i", "n">>

DashboardPage(user) == [name |-> "dashboard", user |-> user]

DashboardPage_useEffect_noAuthCheck ==
    [redirect |-> FALSE, user |-> getStoredUser]

\* useEffect(() => { ... }, []): leave for /login, or take the stored user
DashboardPage_useEffect ==
    IF ~isAuthenticated THEN [redirect |-> TRUE, user |-> NullObject]
    ELSE [redirect |-> FALSE, user |-> getStoredUser]

\* handleLogout after `await authApi.logout()`: the assignment to
\* window.location.href runs only if the await did not throw
DashboardPage_handleLogout(out) == ~out.threw

\* the browser loads /dashboard: first render, then the effect
OpenDashboard ==
    /\ hasWindow /\ page = "none"
    /\ LET e == DashboardPage_useEffect
       IN  /\ IF e.redirect
              THEN /\ page' = "none" /\ form' = NoPage
                   /\ location' = LoginPath
              ELSE /\ page' = "dashboard" /\ form' = DashboardPage(e.user)
                   /\ location' = location
           /\ ev' = [kind |-> "mount", page |-> "dashboard", token |-> getToken,
                     left |-> e.redirect]
    /\ UNCHANGED <<gatewayVars, hasWindow, localStorage, inflight, timers>>

\* onClick of 'Sign out' (the button is never disabled)
SignOut ==
    /\ page = "dashboard"
    /\ CanDispatch
    /\ inflight' = inflight (+) SetToBag({request("logout", "page", apiPost)})
    /\ ev' = [kind |-> "signout", page |-> page, before |-> localStorage, token |-> getToken]
    /\ UNCHANGED <<gatewayVars, hasWindow, localStorage, page, form, timers, location>>

\* fetch settles for a logout request of the dashboard
CompleteSignOut(r, resp) ==
    /\ page = "dashboard"
    /\ BagIn(r, inflight) /\ r.src = "page"
    /\ LET s == settle(r.op, localStorage, resp)
       IN  /\ localStorage' = s.ls
           /\ ev' = completed(r, resp, s)
           /\ IF DashboardPage_handleLogout(s.out)
              THEN /\ page' = "none" /\ form' = NoPage
                   /\ location' = LoginPath
                   /\ inflight' = EmptyBag
              ELSE /\ UNCHANGED <<page, form, location>>
                   /\ inflight' = inflight (-) SetToBag({r})
    /\ UNCHANGED <<gatewayVars, hasWindow, timers>>

NextDashboard ==
    \/ OpenDashboard
    \/ SignOut
    \/ \E r \in BagToSet(inflight), resp \in Responses : CompleteSignOut(r, resp)

SpecDashboard == InitForms /\ [][NextDashboard]_vars

(***************************************************************************)
(* Shorthands for the properties.                                          *)
(***************************************************************************)
Completed == ev.kind = "complete"
Dispatched == ev.kind = "dispatch"
TokenStored == HasItem(localStorage, TOKEN_KEY)
UserStored == HasItem(localStorage, USER_KEY)
GotStatus(st) == Completed /\ ev.resp.kind = "response" /\ ev.resp.status = st
Got2xx == Completed /\ ev.resp.kind = "response" /\ ok(ev.resp.status)

TypeOK ==
    /\ hasWindow \in BOOLEAN
    /\ DOMAIN localStorage \subseteq {TOKEN_KEY, USER_KEY, "user"}
    /\ BagCardinality(inflight) <= MaxInflight

(***************************************************************************)
(* Properties of the client.                                               *)
(***************************************************************************)

\* C1: after a request whose response has status 401 has completed, the
\* stored token and the stored user are both absent, whatever the body.
C1_SessionClearedOn401 ==
    GotStatus(401) => ~TokenStored /\ ~UserStored

\* C2: a request dispatched while a token is stored and skipAuth is not set
\* carries the Authorization header 'Bearer <token>' and nothing else, also
\* when the caller passed an Authorization header of its own.
C2_BearerOfStoredToken ==
    (Dispatched /\ ev.token # Null /\ ~ev.options.skipAuth)
        => ev.auth = <<"Bearer " \o ev.token>>

\* C3 as stated: a request dispatched while no token is stored carries no
\* Authorization header, whatever method, body and caller headers.
C3_NoHeaderWithoutToken ==
    (Dispatched /\ ev.token = Null) => ev.auth = <<>>

\* C3 as amended: while no token is stored the dispatcher adds no
\* Authorization header; the request carries one only if the caller passed
\* it in options.headers, and then with the caller's value.
C3_NoHeaderAddedWithoutToken ==
    (Dispatched /\ ev.token = Null)
        => ev.auth = wireAuthorization(ev.options.headers)

C3_Witness ==
    /\ Dispatched /\ ev.token = Null /\ ~ev.options.skipAuth
    /\ ev.options.headers = EmptyObject
    /\ ev.auth = <<>>

\* C4: when login or register gets a 2xx response that contains a token,
\* then on return getToken() is that token and getStoredUser() is the user
\* of the same response.
C4_LoginStoresSession ==
    (Got2xx /\ ev.op \in {"login", "register"}
        /\ ev.resp.body = "json" /\ Has(ev.resp.json, "token"))
        => /\ getToken = ev.resp.json.token
           /\ getStoredUser = ev.resp.json.user

C4_Witness ==
    /\ Got2xx /\ ev.op = "login"
    /\ ev.resp.body = "json" /\ Has(ev.resp.json, "token")
    /\ HasItem(ev.before, TOKEN_KEY)
    /\ ev.before[TOKEN_KEY] # ev.resp.json.token
    /\ getToken = ev.resp.json.token

\* C5: after logout() has completed nobody is authenticated and no user is
\* stored, however the remote call ended; what the remote call threw is
\* what logout throws.
C5_LogoutAlwaysClears ==
    (Completed /\ ev.op = "logout")
        => /\ ~isAuthenticated
           /\ ~UserStored
           /\ ev.out = ev.api
           /\ (~Got2xx => ev.out.threw)

C5_Witness ==
    /\ Completed /\ ev.op = "logout"
    /\ ev.resp.kind = "reject"
    /\ HasItem(ev.before, TOKEN_KEY) /\ HasItem(ev.before, USER_KEY)
    /\ ~isAuthenticated /\ ev.out.threw

C10_SessionFrame ==
    (Completed
        /\ ev.op # "logout"
        /\ ~GotStatus(401)
        /\ ~(ev.op \in {"login", "register"} /\ Got2xx
               /\ ev.resp.body = "json" /\ Has(ev.resp.json, "token")))
        => localStorage = ev.before

C10_Witness ==
    /\ GotStatus(500) /\ ev.op = "login"
    /\ TokenStored /\ UserStored
    /\ localStorage = ev.before

(***************************************************************************)
(* Properties of the pages.                                                *)
(***************************************************************************)
Submitted == ev.kind = "submit"
Redirected == ev.kind = "redirect"

\* a relative reference that stays on the origin of the page: it starts
\* with one slash ("//host" names another host)
SameOriginPath(uri) ==
    /\ Len(uri) >= 1 /\ uri[1] = "/"
    /\ Len(uri) >= 2 => uri[2] \notin {"/", "\\"}

\* C7: every redirect the login form performs after a submit, in web and in
\* app mode, goes to a redirect_uri that is the hotstart://auth/callback
\* deep link, https://hotstart.dev or https://www.hotstart.dev with any
\* subpath, or a same-origin relative path.
C7_RedirectOnlyToAllowList ==
    (Redirected /\ ev.page = "login")
        => \/ ev.from.redirectUri = DeepLink
           \/ matchesOrigin(ev.from.redirectUri, WebOrigin)
           \/ matchesOrigin(ev.from.redirectUri, WwwOrigin)
           \/ SameOriginPath(ev.from.redirectUri)

\* C8: once the login form has found its redirect destination invalid, it
\* stays so for that form instance: no later step of the instance clears
\* the finding, dispatches a request or schedules a redirect, and every
\* submit ends blocked with the invalid-redirect error text.
C8_InvalidRedirectIsTerminal ==
    [][(page = "login" /\ form.redirectError # "" /\ page' = "login")
          => /\ form'.redirectError # ""
             /\ inflight' = inflight
             /\ timers' = timers
             /\ localStorage' = localStorage
             /\ ev'.kind = "submit" => (ev'.step = "blocked" /\ form'.error = MSG_REDIRECT)]_vars

C8_Witness ==
    /\ page = "login" /\ form.redirectError # ""
    /\ Submitted /\ ev.step = "blocked"
    /\ form.email = <<"a", "@", "b", ".", "c">> /\ form.password = <<"p", "a", "s", "s", "w", "o", "r", "d", "1">>
    /\ form.error = MSG_REDIRECT

\* the form validation of the mounted page fails on the current input
ValidationFails ==
    \/ /\ page = "login"
       /\ trimIsEmpty(form.email) \/ form.password = <<>>
    \/ /\ page = "register"
       /\ \/ trimIsEmpty(form.email)
          \/ ~emailRegex(form.email)
          \/ form.password = <<>>
          \/ Len(form.password) < 8
          \/ form.confirmPassword # form.password

\* C9: a submit whose form validation fails sets the error text and returns
\* without dispatching a request and without changing the session store.
C9_ValidationBlocksSubmit ==
    (Submitted /\ ValidationFails)
        => /\ form.error # ""
           /\ ev.step # "dispatch"
           /\ ~form.isLoading
           /\ inflight = EmptyBag
           /\ localStorage = ev.before

C9_Witness ==
    /\ Submitted /\ page = "register"
    /\ form.email = <<"a", "@", "b", ".", "c">> /\ form.password = <<"p", "a", "s", "s", "w", "o", "r", "d", "1">>
    /\ form.confirmPassword = <<"p", "w">>
    /\ form.error = "Passwords do not match"
    /\ inflight = EmptyBag


(***************************************************************************)
(* Reading a URL: the query is what follows the first "?" before any "#",  *)
(* its parameters are the name=value pieces between "&".                   *)
(***************************************************************************)
FirstIndex(str, c) ==
    IF \E i \in 1..Len(str) : str[i] = c
    THEN CHOOSE i \in 1..Len(str) : str[i] = c /\ \A j \in 1..(i - 1) : str[j] # c
    ELSE 0

QueryOf(url) ==
    LET h == FirstIndex(url, "#")
        u == IF h = 0 THEN url ELSE SubSeq(url, 1, h - 1)
        q == FirstIndex(u, "?")
    IN  IF q = 0 THEN <<>> ELSE SubSeq(u, q + 1, Len(u))

RECURSIVE SplitAmp(_)
SplitAmp(query) ==
    LET a == FirstIndex(query, "&")
    IN  IF a = 0 THEN {query}
        ELSE {SubSeq(query, 1, a - 1)} \cup SplitAmp(SubSeq(query, a + 1, Len(query)))

\* url has the query parameter name with exactly this (encoded) value
HasQueryParam(url, name, value) == (name \o <<"=">> \o value) \in SplitAmp(QueryOf(url))

AppSuccess ==
    /\ Got2xx /\ ev.src = "page" /\ ev.op = "loginForApp"
    /\ ev.resp.body = "json" /\ Has(ev.resp.json, "code")

\* C11: in app mode a successful submit (a response carrying a one-time
\* code) sends the browser to redirect_uri with the URL-encoded code as the
\* query parameter 'code', and leaves the stored token and user as they were.
C11_AppHandoff ==
    AppSuccess
        => /\ \E url \in timers :
                /\ StartsWith(url, form.redirectUri)
                /\ HasQueryParam(url, <<"c", "o", "d", "e">>, encodeURIComponent(ev.resp.json.code))
           /\ localStorage = ev.before


\* the web login of the form came back without an error
WebLoginSucceeded ==
    /\ Completed /\ ev.src = "page" /\ ev.op = "login"
    /\ ~ev.out.threw /\ ev.out.value # NullObject

\* C12: in web mode the login form redirects after a successful submit only
\* when the store already holds the token and the user that login returned;
\* no web-mode redirect occurs while the token is absent from the store.
C12_StoreBeforeWebRedirect ==
    /\ WebLoginSucceeded
          => /\ timers # {}
             /\ Has(ev.out.value, "token")
             /\ getToken = ev.out.value.token
             /\ getStoredUser = ev.out.value.user
    /\ (ev.kind = "redirect" /\ ev.page = "login" /\ ~ev.from.isAppLogin)
          => ev.token # Null


\* C13: each form has at most one request in flight; from the dispatch of
\* its request until the request settles isLoading is true and the submit
\* button and the inputs are disabled.
C13_OneRequestPerForm ==
    page \in {"login", "register"}
        => /\ BagCardinality(inflight) <= 1
           /\ inflight # EmptyBag => form.isLoading /\ disabled(form)

C13_Witness ==
    /\ page = "register" /\ ev.kind = "submit" /\ ev.step = "dispatch"
    /\ BagCardinality(inflight) = 1 /\ disabled(form)


(***************************************************************************)
(* Properties of the session store.                                        *)
(***************************************************************************)
StoreCall(op) == ev.kind = "store" /\ ev.op = op

\* C14: in a browser, getStoredUser() called right after setStoredUser(u)
\* returns a value equal to u, member for member, for every user object u.
C14_UserRoundTrip ==
    [][(hasWindow /\ StoreCall("setStoredUser") /\ ev'.kind = "store" /\ ev'.op = "getStoredUser")
          => ev'.user = ev.user]_vars

C14_Witness ==
    /\ hasWindow /\ StoreCall("getStoredUser") /\ ev.after = "setStoredUser"
    /\ ev.user \in AuthUser


\* C15: a request whose response has a 2xx status and an empty body returns
\* the empty object as its result and raises no error.
C15_EmptyBodyIsEmptyObject ==
    (Got2xx /\ ev.resp.body = "empty") => ~ev.api.threw /\ ev.api.value = EmptyObject

C15_Witness ==
    /\ Got2xx /\ ev.op = "request" /\ ev.resp.body = "empty"
    /\ ~ev.out.threw /\ ev.out.value = EmptyObject


\* C16: the client persists state in exactly two slots of browser storage,
\* the token slot and the user slot: whatever the pages and the client did,
\* no other storage key has been written.
C16_OnlyTwoSlots ==
    DOMAIN localStorage \subseteq {TOKEN_KEY, USER_KEY}


\* C17: in every reachable state of the session store isAuthenticated() is
\* true if and only if a token is present, that is, if and only if
\* getToken() returns a token rather than absent.
C17_AuthenticatedIffToken ==
    /\ isAuthenticated <=> getToken # Null
    /\ hasWindow => (isAuthenticated <=> TokenStored)
    /\ StoreCall("isAuthenticated") => (ev.authed <=> getToken # Null)

C17_Witness ==
    /\ hasWindow /\ StoreCall("isAuthenticated") /\ ev.after = "setToken"
    /\ ev.authed /\ TokenStored


\* C18: whatever login, register, logout and other requests went through
\* authApi and apiRequest, a cached user is stored only while a token is
\* stored; clearing removes the two together, so no state with a user and
\* no token is observable.
C18_UserOnlyWithToken ==
    /\ UserStored => TokenStored
    /\ (Completed /\ HasItem(ev.before, TOKEN_KEY) /\ ~TokenStored) => ~UserStored

C18_Witness ==
    /\ Completed /\ ev.op = "logout"
    /\ HasItem(ev.before, TOKEN_KEY) /\ HasItem(ev.before, USER_KEY)
    /\ ~TokenStored /\ ~UserStored


\* C19: outside a browser (window undefined) every operation of the session
\* store is a no-op: getToken and getStoredUser return absent,
\* isAuthenticated returns false, and setToken, setStoredUser and clearToken
\* change nothing.
C19_NoOpWithoutWindow ==
    ~hasWindow
        => /\ StoreCall("getToken") => ev.token = Null
           /\ StoreCall("getStoredUser") => ev.user = NullObject
           /\ StoreCall("isAuthenticated") => ~ev.authed
           /\ ev.kind = "store" => localStorage = ev.before
           /\ getToken = Null /\ getStoredUser = NullObject /\ ~isAuthenticated

C19_Witness ==
    /\ ~hasWindow /\ StoreCall("getToken") /\ ev.after = "setToken"
    /\ ev.token = Null /\ localStorage = ev.before


\* C20: there is no retry: a submit of a form dispatches at most one
\* request, nothing but a submit dispatches one, and when the request of a
\* form fails the request is gone, no redirect is scheduled and the failure
\* becomes the error text of the form, which was empty until then.
C20_NoRetry ==
    [][/\ BagCardinality(inflight') <= BagCardinality(inflight) + 1
       /\ BagCardinality(inflight') > BagCardinality(inflight)
             => ev'.kind = "submit" /\ ev'.step = "dispatch"
       /\ (ev'.kind = "complete" /\ ev'.src = "page" /\ ev'.out.threw)
             => /\ BagCardinality(inflight') = BagCardinality(inflight) - 1
                /\ form.error = "" /\ form'.error # ""
                /\ form'.error = catchMessage(ev'.out.value)
                /\ ~form'.isLoading
                /\ timers' = timers]_vars

C20_Witness ==
    /\ page = "login" /\ Completed /\ ev.src = "page" /\ ev.out.threw
    /\ ev.resp.kind = "reject"
    /\ form.error = MSG_UNEXPECTED /\ inflight = EmptyBag /\ timers = {}


(***************************************************************************)
(* Properties of the forms, continued.                                     *)
(***************************************************************************)
\* the mounted form shows a failure other than the redirect-validation one
RecoverableFailure ==
    /\ page \in {"login", "register"}
    /\ form.error # ""
    /\ page = "login" => form.redirectError = ""

\* what a submit of the mounted form would do with the input it holds now
SubmitStep ==
    IF page = "login" THEN LoginForm_handleSubmit(form).step
    ELSE RegisterPage_handleSubmit(form).step

InputIsValid ==
    IF page = "login" THEN LoginForm_validateForm(form) = ""
    ELSE RegisterPage_validateForm(form) = ""

\* C21: after a local validation error, a backend error or a transport
\* error (every failure but the redirect-validation one) the form has
\* isLoading false and its submit enabled, and a submit with valid input
\* dispatches a new request.
C21_FailureIsRecoverable ==
    /\ RecoverableFailure
          => /\ ~form.isLoading /\ ~disabled(form)
             /\ inflight = EmptyBag /\ CanDispatch
             /\ InputIsValid => SubmitStep = "dispatch"
    /\ (ev.kind = "submit" /\ page \in {"login", "register"} /\ ev.step = "dispatch")
          => inflight # EmptyBag /\ form.error = ""

C21_Witness ==
    /\ page = "login" /\ Completed /\ ev.src = "page" /\ GotStatus(500)
    /\ RecoverableFailure /\ InputIsValid /\ SubmitStep = "dispatch"


(***************************************************************************)
(* Properties of the client, continued.                                    *)
(***************************************************************************)
GotNon2xx == Completed /\ ev.resp.kind = "response" /\ ~ok(ev.resp.status)

\* the payload apiRequest parsed out of a body that is empty or an object
ParsedPayload == IF ev.resp.body = "json" THEN ev.resp.json ELSE EmptyObject

CarriesResponse(error) ==
    /\ error.name = "ApiError"
    /\ error.status = ev.resp.status
    /\ error.statusText = statusText(ev.resp.status)
    /\ error.data = ParsedPayload

ResolvedFrom(override, inBrowser, host) ==
    IF override \notin {Null, ""} THEN override
    ELSE IF inBrowser /\ host # "localhost" THEN "https://api.hotstart.dev"
    ELSE "http://localhost:8787"

\* C23: the gateway base URL is resolved once, at module load, in a fixed
\* priority: the override NEXT_PUBLIC_API_URL if set (to a non-empty
\* value), else the production gateway in a browser whose hostname is not
\* 'localhost', else http://localhost:8787; it never changes afterwards and
\* every later request uses that same value.
C23_BaseUrlResolvedOnce ==
    [][/\ ev'.kind = "load"
            => API_BASE_URL' = ResolvedFrom(ev'.env, ev'.hasWindow, ev'.hostname)
       /\ API_BASE_URL # Null => API_BASE_URL' = API_BASE_URL
       /\ ev'.kind = "url" => ev'.url = API_BASE_URL \o ev'.endpoint]_vars

C23_Witness ==
    /\ ev.kind = "url" /\ ~hasWindow /\ env = "https://staging.hotstart.dev"
    /\ API_BASE_URL = DEV_GATEWAY_URL
    /\ ev.url = "http://localhost:8787/auth/login"


\* the one-time codes a backend may answer with
CodesIssued == {p.code : p \in {q \in Payloads : Has(q, "code")}}

CarriesCode(url) ==
    \E c \in CodesIssued : HasQueryParam(url, <<"c", "o", "d", "e">>, encodeURIComponent(c))

\* C24: in app mode every redirect that carries a code as query parameter
\* goes to the deep link hotstart://auth/callback?code=..., never to a web
\* URL or a relative path.
C24_CodeOnlyToDeepLink ==
    (ev.kind = "redirect" /\ ev.page = "login" /\ ev.from.isAppLogin /\ CarriesCode(ev.url))
        => StartsWith(ev.url, DeepLink \o <<"?", "c", "o", "d", "e", "=">>)


(***************************************************************************)
(* Properties of the dashboard.                                            *)
(***************************************************************************)
\* C25: when the dashboard mounts while no token is stored the browser is
\* sent to /login and no user is displayed; a user is displayed only if a
\* token was present at mount and a user was stored, and it is that user.
C25_DashboardProtected ==
    [][/\ (ev'.kind = "mount" /\ ~TokenStored)
             => /\ location' = LoginPath /\ page' = "none"
                /\ ev'.left
       /\ (page' = "dashboard" /\ form'.user # NullObject)
             => \/ page = "dashboard" /\ form'.user = form.user
                \/ /\ ev'.kind = "mount" /\ TokenStored /\ UserStored
                   /\ form'.user = getStoredUser]_vars

C25_Witness ==
    /\ ev.kind = "mount" /\ ev.token = Null /\ ev.left
    /\ page = "none" /\ location = LoginPath


(***************************************************************************)
(* Properties of concurrent requests.                                      *)
(***************************************************************************)
\* the completed request was not sent with the token stored when it settled
SentWithoutStoredToken ==
    /\ Completed /\ HasItem(ev.before, TOKEN_KEY)
    /\ ev.sentAuth # <<"Bearer " \o ev.before[TOKEN_KEY]>>

\* C26: a 401 answer to a request that was sent anonymously or with an
\* earlier token also removes the token and the user that were stored after
\* that request was dispatched.
C26_Stale401ClearsSession ==
    (GotStatus(401) /\ SentWithoutStoredToken) => ~TokenStored /\ ~UserStored


\* the auth responses a backend may give that carry a token
AuthResponses == {p \in Payloads : Has(p, "token")}

\* C27: however the completions of concurrent login, register, logout and
\* 401-answered requests interleave, the stored token and the stored user
\* come from the same auth response.
C27_TokenAndUserOfOneResponse ==
    (TokenStored \/ UserStored)
        => /\ TokenStored /\ UserStored
           /\ \E p \in AuthResponses : p.token = getToken /\ p.user = getStoredUser

C27_Witness ==
    /\ Completed /\ ev.op \in {"login", "register"} /\ inflight # EmptyBag
    /\ HasItem(ev.before, TOKEN_KEY) /\ TokenStored
    /\ ev.before[TOKEN_KEY] # getToken
    /\ ev.out.value.token = getToken /\ ev.out.value.user = getStoredUser


\* C28: when the user clicks 'Sign out' on the dashboard the session is
\* cleared and the browser is navigated to /login, whether the remote
\* logout call succeeds or fails: once the call has settled, both are done.
C28_SignOutLeavesForLogin ==
    (Completed /\ ev.src = "page" /\ ev.op = "logout")
        => /\ ~TokenStored /\ ~UserStored
           /\ page = "none" /\ location = LoginPath


(***************************************************************************)
(* Properties of the forms: success and redirect.                          *)
(***************************************************************************)
\* C29: after a successful submit of the login form no further request is
\* dispatched from the form before the scheduled redirect has taken place:
\* while a redirect is pending the form cannot be submitted.
C29_NoSubmitBeforeRedirect ==
    /\ (ev.kind = "submit" /\ ev.page = "login" /\ ev.step = "dispatch") => timers = {}
    /\ (page = "login" /\ timers # {}) => inflight = EmptyBag


\* C30: in the login and register forms the error text and the success
\* text are never both non-empty: a submit first clears both, a failed
\* submit sets only the error and a successful one only the success text.
C30_ErrorXorSuccess ==
    page \in {"login", "register"}
        => /\ ~(form.error # "" /\ form.success # "")
           /\ ev.kind = "submit" => form.success = ""
           /\ (ev.kind = "submit" /\ ev.step = "dispatch") => form.error = ""
           /\ (Completed /\ ev.out.threw) => form.error # "" /\ form.success = ""
           /\ (Completed /\ ~ev.out.threw /\ timers # {}) => form.error = ""

C30_Witness ==
    /\ page = "login" /\ ~form.isAppLogin /\ Completed /\ ev.out.threw
    /\ timers # {} /\ form.error # "" /\ form.success = ""

====
